---- MODULE Spec2Model ----
(***************************************************************************)
(* The two pipelines of the repository.                                    *)
(*                                                                         *)
(* Delivery (emailer.py, process_csv): the persisted CSV store, the rows   *)
(* in memory, the startup checks, the eligibility filter, the cap, the     *)
(* per-record send, the status write-back, the rewrite of the store after  *)
(* every attempt and the delay between attempts.  A user interrupt         *)
(* (KeyboardInterrupt) may arrive between any two steps of a run.          *)
(* personalize_email is a function of its two arguments and has a          *)
(* specification of its own (RenderSpec).                                  *)
(*                                                                         *)
(* Discovery (scraper.py, scrape_producthunt): the walk over the listing   *)
(* with its seen_ids, the seed records, and for every seed record the      *)
(* product page, the maker, the maker's profile, the website and its       *)
(* fallback pages, each navigation free to fail (ScrapeSpec).              *)
(*                                                                         *)
(* Python strings are modelled as sequences of one-character strings, so   *)
(* that strip(), lower(), replace() and the substring test `p in s` are    *)
(* computed.  A csv row (a dict) is a function whose DOMAIN is the set of  *)
(* its keys.                                                               *)
(***************************************************************************)
EXTENDS Integers, Sequences, FiniteSets, TLC

\* ------------------------------------------------------------------ bounds
\* Largest number of records in the store.
MaxRows == 2
\* Largest number of delivery runs over the store.
MaxRuns == 2
\* Largest number of entries in the listing of a scrape.
MaxPosts == 2
\* Largest number of links on a maker profile page.
MaxLinks == 4

\* ----------------------------------------------------------------- strings
EmptyStr == <<>>

UpperChars ==
  <<"A","B","C","D","E","F","G","H","I","J","K","L","M",
    "N","O","P","Q","R","S","T","U","V","W","X","Y","Z">>

LowerChars ==
  <<"a","b","c","d","e","f","g","h","i","j","k","l","m",
    "n","o","p","q","r","s","t","u","v","w","x","y","z">>

WhiteSpace == {" ", "\t", "\n", "\r"}

\* str.lower(), one character
LowerChar(c) ==
  IF \E k \in 1..Len(UpperChars) : UpperChars[k] = c
    THEN LowerChars[CHOOSE k \in 1..Len(UpperChars) : UpperChars[k] = c]
    ELSE c

\* str.lower()
Lower(s) == [k \in 1..Len(s) |-> LowerChar(s[k])]

RECURSIVE LStrip(_)
LStrip(s) ==
  IF s # <<>> /\ Head(s) \in WhiteSpace THEN LStrip(Tail(s)) ELSE s

RECURSIVE RStrip(_)
RStrip(s) ==
  IF s # <<>> /\ s[Len(s)] \in WhiteSpace
    THEN RStrip(SubSeq(s, 1, Len(s) - 1))
    ELSE s

\* str.strip()
Strip(s) == RStrip(LStrip(s))

\* the Python test `p in s` on strings
Contains(s, p) ==
  \E k \in 0..(Len(s) - Len(p)) : SubSeq(s, k + 1, k + Len(p)) = p

\* dict.get(key, default)
Get(row, key, default) == IF key \in DOMAIN row THEN row[key] ELSE default

\* row[key] = value
Put(row, key, value) ==
  [f \in (DOMAIN row) \cup {key} |-> IF f = key THEN value ELSE row[f]]

\* the status values written by process_csv
SENT == <<"s","e","n","t">>
FAILED == <<"f","a","i","l","e","d">>
SKIPPED == <<"s","k","i","p","p","e","d">>

\* datetime.now().strftime('%Y-%m-%d %H:%M:%S'): a non-empty string fixed by
\* the time of the call
Timestamp(t) == <<t>>

\* ------------------------------------------------------- emails of the store
JANE == <<"j","a","n","e","@","a","c","m","e",".","i","o">>
TEST_EXAMPLE ==
  <<"t","e","s","t","@","e","x","a","m","p","l","e",".","c","o","m">>
INFO_FOOTER ==
  <<"i","n","f","o","@","f","o","o","t","e","r",".","e","m","a","i","l">>
\* a mailto: target that is one blank (scraper.py lowers it, never strips it)
BLANK == <<" ">>

\* the emails a scrape may have stored (all lower-cased by the scraper); a row
\* holds its email as the position of the text in this list
Emails == <<EmptyStr, BLANK, JANE, TEST_EXAMPLE, INFO_FOOTER>>

EmailIds == 1..Len(Emails)

\* the text of a row's email: row.get('email', '')
EmailOf(row) == IF "email" \in DOMAIN row THEN Emails[row["email"]] ELSE EmptyStr

\* the columns save_to_csv writes; "email" stands for the discovery columns
DiscoveryColumns == <<"email">>

\* invalid_patterns of process_csv
invalid_patterns ==
  { <<"e","x","a","m","p","l","e",".","c","o","m">>,
    <<"y","o","u","r","@">>,
    <<"y","o","u","@">>,
    <<"n","o","r","e","p","l","y","@">>,
    <<"n","o","-","r","e","p","l","y","@">>,
    <<"t","e","s","t","@">>,
    <<"d","e","m","o","@">>,
    <<".","w","e","b","p">>,
    <<"f","o","o","t","e","r",".","e","m","a","i","l">> }

\* ------------------------------------------------------------------- state
VARIABLES
  storeHeader,  \* the CSV file: its header row (<<>>: the file is empty)
  storeRows,    \* the CSV file: its record rows, in order
  fieldnames,   \* process_csv: fieldnames
  rows,         \* process_csv: rows (the dicts held in memory)
  to_send,      \* process_csv: to_send, as the row indexes it holds
  idx,          \* process_csv: position of the send loop in to_send (from 1)
  w,            \* process_csv: position of the store rewrite in rows (from 1)
  limit,        \* the limit argument: <<>> for None, <<n>> for the integer n
  pc,           \* where the process is
  now,          \* the wall clock as the runs read it: it advances from one
                \* run to the next and is not seen to advance within a run
  runs,         \* number of runs started
  startRows,    \* history: the store's rows when the current run read them
  attemptLog,   \* history: the send attempts of the current run, in order,
                \* each with the row and whether the transport took the message
  okSends,      \* history: successful sends per row, over all runs
  inflight,     \* history: interrupts with the row sent and not yet saved
  interrupts,   \* history: number of interrupts
  crashPc,      \* history: where the last interrupt arrived
  test_mode,    \* the test_mode argument of the current run
  missing,      \* what the current run found missing at startup
  writes,       \* history: rewrites of the store the current run completed
  delays,       \* history: time.sleep(5) calls the current run completed
  initRows,     \* history: the store's rows before the first run
  template,     \* personalize_email: the template argument
  product,      \* personalize_email: the product argument (a csv row)
  rendered,     \* personalize_email: <<>>, then <<subject, body>> returned
  browser,      \* scrape_producthunt: the browser session
  posts,        \* scrape_producthunt: the listing entries found on the page
  scrape_limit, \* scrape_producthunt: the limit argument
  seen_ids,     \* scrape_producthunt: seen_ids
  product_data, \* scrape_producthunt: product_data, the seed records
  products,     \* scrape_producthunt: products, the output
  postNo,       \* position of the loop over posts (from 1)
  seedNo,       \* position of the loop over product_data (from 1)
  pathNo,       \* get_email_from_website: position in the fallback paths
  website,      \* scrape_producthunt: website of the product being processed
  maker_info,   \* scrape_producthunt: maker_info of that product
  scrape_email, \* scrape_producthunt: email of that product
  page_url,     \* page.url
  spc,          \* where the scrape run is
  trail,        \* history: the states entered for the product being
                \* processed, each with the page it navigated to
  firstSeen,    \* history: the entry that put each identifier in seen_ids
  failure,      \* history: a navigation failed for the product processed
  probed,       \* history: the pages get_email_from_website loaded for the
                \* product processed, each with what came of it
  \* ---- one call of get_maker_social_links
  all_links,    \* the href of each a[href] of the profile page, in page order
  loaded,       \* whether page.goto(maker_profile_url) succeeded
  result        \* the dict returned, <<>> before the call

\* the variables of a delivery run
deliveryVars ==
  <<storeHeader, storeRows, fieldnames, rows, to_send, idx, w, limit, pc, now,
    runs, startRows, attemptLog, okSends, inflight, interrupts, crashPc,
    test_mode, missing, writes, delays, initRows>>

\* the variables of one call of personalize_email
renderVars == <<template, product, rendered>>

\* the variables of a scrape run
scrapeVars ==
  <<browser, posts, scrape_limit, seen_ids, product_data, products, postNo,
    seedNo, pathNo, website, maker_info, scrape_email, page_url, spc, trail,
    firstSeen, failure, probed>>

\* the variables of one call of get_maker_social_links
socialVars == <<all_links, loaded, result>>

vars == <<deliveryVars, renderVars, scrapeVars, socialVars>>

NoLimit == <<>>

\* the values of the limit argument tried: None, a negative integer, 0, and a
\* positive integer (argparse's type=int accepts every integer)
LimitValues == {NoLimit, <<-1>>, <<0>>, <<1>>}

\* what resend.Emails.send may do: answer with an id, answer without one, raise
TransportOutcomes == {"id", "noid", "raise"}

\* the transport took the message exactly when it answered with an id
Delivered(resp) == resp = "id"

Running == {"send", "open", "header", "row", "delay"}

\* -------------------------------------------------------------- the filter
\* a slip: the email is tested without strip()
NoEmail_NoStrip(row) == EmailOf(row) = EmptyStr

\* email = row.get('email', '').strip(); `if not email: continue`
NoEmail(row) == Strip(EmailOf(row)) = EmptyStr

\* a slip in the compared literal: 'send' for 'sent'
AlreadySent_Typo(row) ==
  Lower(Strip(Get(row, "email_sent", EmptyStr))) = <<"s","e","n","d">>

\* a slip in the test: any status set, not only 'sent', ends the row
AlreadySent_AnyStatus(row) ==
  Lower(Strip(Get(row, "email_sent", EmptyStr))) # EmptyStr

\* email_sent = row.get('email_sent', '').strip().lower();
\* `if email_sent == 'sent': continue`
AlreadySent(row) == Lower(Strip(Get(row, "email_sent", EmptyStr))) = SENT

\* any(p in email.lower() for p in invalid_patterns), email already stripped
InvalidEmail(row) ==
  LET email == Lower(Strip(EmailOf(row)))
  IN  \E p \in invalid_patterns : Contains(email, p)

\* the row is marked skipped by the filter
FilterSkips(row) == ~NoEmail(row) /\ ~AlreadySent(row) /\ InvalidEmail(row)

\* the row is appended to to_send by the filter
FilterSelects(row) == ~NoEmail(row) /\ ~AlreadySent(row) /\ ~InvalidEmail(row)

\* a slip: the skipped rows get their status and no timestamp
FilterRows_NoStamp(rs, t) ==
  [i \in 1..Len(rs) |->
     IF FilterSkips(rs[i]) THEN Put(rs[i], "email_sent", SKIPPED) ELSE rs[i]]

\* rows after the filter loop: the skipped ones are stamped
FilterRows(rs, t) ==
  [i \in 1..Len(rs) |->
     IF FilterSkips(rs[i])
       THEN Put(Put(rs[i], "email_sent", SKIPPED), "email_sent_at",
           Timestamp(t))
       ELSE rs[i]]

Indexes(n) == [i \in 1..n |-> i]

\* to_send after the filter loop, in store order
FilterToSend(rs) ==
  LET keep(i) == FilterSelects(rs[i]) IN SelectSeq(Indexes(Len(rs)), keep)

\* a Python slice s[:n]
SliceTo(s, n) ==
  IF n >= 0
    THEN SubSeq(s, 1, IF n < Len(s) THEN n ELSE Len(s))
    ELSE SubSeq(s, 1, IF Len(s) + n > 0 THEN Len(s) + n ELSE 0)

\* `if limit and limit < len(to_send): to_send = to_send[:limit]`
ApplyLimit(ts, lim) ==
  IF lim # NoLimit /\ lim[1] # 0 /\ lim[1] < Len(ts)
    THEN SliceTo(ts, lim[1])
    ELSE ts

\* the two status columns are appended to fieldnames when missing
AddStatusColumns(fs) ==
  LET has(c) == \E k \in 1..Len(fs) : fs[k] = c
      f1 == IF has("email_sent") THEN fs ELSE Append(fs, "email_sent")
  IN  IF has("email_sent_at") THEN f1 ELSE Append(f1, "email_sent_at")

\* ------------------------------------------------------------ the send loop
\* a slip: every response that did not raise counts as a success
SendSucceeded_AnyResponse(resp) == resp # "raise"

\* send_email: success only when the response carries an id; an exception
\* and a response without id both give False
SendSucceeded(resp) == resp = "id"

\* the status written for an attempt
StatusOf(success) == IF success THEN SENT ELSE FAILED

\* a slip in the index: the loop counter for row_index
MarkedRow_LoopIndex(ts, k) == k

\* the row whose status is written: rows[row_index]
MarkedRow(ts, k) == ts[k]

\* csv.DictWriter.writerow: the values of the row under fieldnames
WrittenRow(row, fs) ==
  [f \in {fs[k] : k \in 1..Len(fs)} |-> row[f]]

\* `for field in fieldnames: if field not in row: row[field] = ''`
FillMissing(row, fs) ==
  [f \in (DOMAIN row) \cup {fs[k] : k \in 1..Len(fs)} |->
     IF f \in DOMAIN row THEN row[f] ELSE EmptyStr]

\* ----------------------------------------------------------------- startup
\* what a run may find missing when it starts: RESEND_API_KEY or FROM_EMAIL,
\* the CSV file, the test address, template.txt
StartupItems == {"credentials", "csv_file", "test_email", "template"}

\* the configurations tried: nothing or one item missing; in production mode
\* the test address is never read, so it is left out of the choice
StartConfigs ==
  {c \in BOOLEAN \X ({{}} \cup {{x} : x \in StartupItems}) :
     "test_email" \in c[2] => c[1]}

\* a slip: test mode is not checked for its address
StartupFails_NoTestCheck(tm, miss) ==
  \/ "credentials" \in miss
  \/ "csv_file" \in miss
  \/ "template" \in miss

\* the checks that end the process before the store is read: the module's
\* credentials check, main's check of the CSV file, validate_test_email in
\* test mode, the template check
StartupFails(tm, miss) ==
  \/ "credentials" \in miss
  \/ "csv_file" \in miss
  \/ tm /\ "test_email" \in miss
  \/ "template" \in miss

\* the address test mode sends to
QA_INBOX == <<"q","a","@","m","a","k","e","r",".","d","e","v">>

\* actual_test_email = test_email or TEST_EMAIL_DEFAULT
TestEmail(miss) == IF "test_email" \in miss THEN EmptyStr ELSE QA_INBOX

\* a slip: the override of test mode is left out
ActualRecipient_NoOverride(to_email, tm, test_email) == to_email

\* send_email: actual_recipient = test_email if test_mode else to_email
ActualRecipient(to_email, tm, test_email) ==
  IF tm THEN test_email ELSE to_email

\* a slip: the store is rewritten once, after the last attempt
RewriteFollows_LastOnly(k, ts) == k = Len(ts)

\* the rewrite of the store is in the body of the loop: it follows every
\* attempt
RewriteFollows(k, ts) == TRUE

\* a slip: idx < len(to_send), so the delay follows the last attempt too
DelayFollows_Always(k, ts) == k < Len(ts) + 1

\* `if idx < len(to_send) - 1: time.sleep(5)`, with k = idx + 1
DelayFollows(k, ts) == k < Len(ts)

\* `for idx, (row_index, row, email) in enumerate(to_send)`: the next
\* iteration, or the end of the loop
AfterDelay(k, ts) == IF k < Len(ts) THEN <<"send", k + 1>> ELSE <<"done", k>>

\* the end of an iteration's body
AfterRewrite(k, ts) ==
  IF DelayFollows(k, ts) THEN <<"delay", k>> ELSE AfterDelay(k, ts)

\* after the marks are set on the row
AfterMark(k, ts) ==
  IF RewriteFollows(k, ts) THEN <<"open", k>> ELSE AfterRewrite(k, ts)

\* -------------------------------------------------------------------- Init
\* The store as save_to_csv leaves it: the discovery columns only, at least
\* one record, no status column.
DeliveryInit ==
  /\ storeHeader = DiscoveryColumns
  /\ \E n \in 1..MaxRows :
       storeRows \in [1..n -> {[email |-> e] : e \in EmailIds}]
  /\ fieldnames = <<>>
  /\ rows = <<>>
  /\ to_send = <<>>
  /\ idx = 1
  /\ w = 1
  /\ limit = NoLimit
  /\ pc = "ready"
  /\ now = 0
  /\ runs = 0
  /\ startRows = storeRows
  /\ attemptLog = <<>>
  /\ okSends = [i \in 1..Len(storeRows) |-> 0]
  /\ inflight = [i \in 1..Len(storeRows) |-> 0]
  /\ interrupts = 0
  /\ crashPc = "none"
  /\ test_mode = FALSE
  /\ missing = {}
  /\ writes = 0
  /\ delays = 0
  /\ initRows = storeRows

\* no call of personalize_email is looked at
RenderIdle ==
  /\ template = EmptyStr
  /\ product = <<>>
  /\ rendered = <<>>

\* the identifiers a listing entry may carry in data-test="post-item-<id>"
PostIds == {"101", "202"}

\* maker_info as get_maker_info starts it; social stands for the four
\* social-link fields
NoMaker == [maker_profile |-> EmptyStr, social |-> FALSE]

\* the page of a browser context just opened
ABOUT_BLANK == <<"a","b","o","u","t",":","b","l","a","n","k">>

\* no scrape run is looked at
ScrapeIdle ==
  /\ browser = "none"
  /\ posts = <<>>
  /\ scrape_limit = NoLimit
  /\ seen_ids = {}
  /\ product_data = <<>>
  /\ products = <<>>
  /\ postNo = 1
  /\ seedNo = 1
  /\ pathNo = 1
  /\ website = EmptyStr
  /\ maker_info = NoMaker
  /\ scrape_email = EmptyStr
  /\ page_url = ABOUT_BLANK
  /\ spc = "idle"
  /\ trail = <<>>
  /\ firstSeen = [i \in PostIds |-> 0]
  /\ failure = FALSE
  /\ probed = <<>>

\* no call of get_maker_social_links is looked at
SocialIdle ==
  /\ all_links = <<>>
  /\ loaded = FALSE
  /\ result = <<>>

Init == DeliveryInit /\ RenderIdle /\ ScrapeIdle /\ SocialIdle

\* ----------------------------------------------------------------- actions
\* a run that one of the startup checks ends (sys.exit(1)): the store is not
\* opened, nothing is read, the process holds no rows
StartFails(tm, miss) ==
  /\ pc \in {"ready", "done", "interrupted", "exited"}
  /\ runs < MaxRuns
  /\ StartupFails(tm, miss)
  /\ runs' = runs + 1
  /\ now' = now + 1
  /\ test_mode' = tm
  /\ missing' = miss
  /\ limit' = NoLimit
  /\ fieldnames' = <<>>
  /\ rows' = <<>>
  /\ to_send' = <<>>
  /\ idx' = 1
  /\ w' = 1
  /\ startRows' = storeRows
  /\ attemptLog' = <<>>
  /\ writes' = 0
  /\ delays' = 0
  /\ pc' = "exited"
  /\ crashPc' = "none"
  /\ UNCHANGED <<storeHeader, storeRows, okSends, inflight, interrupts,
                 initRows,
                 renderVars, scrapeVars, socialVars>>

\* process_csv up to the send loop: the startup checks pass, then read the
\* store, add the status columns, filter, cap.  Nothing outside memory changes.
StartRun(lim, tm, miss) ==
  /\ pc \in {"ready", "done", "interrupted", "exited"}
  /\ runs < MaxRuns
  /\ ~StartupFails(tm, miss)
  /\ runs' = runs + 1
  /\ now' = now + 1
  /\ test_mode' = tm
  /\ missing' = miss
  /\ limit' = lim
  /\ fieldnames' = AddStatusColumns(storeHeader)
  /\ rows' = FilterRows(storeRows, now')
  /\ to_send' = ApplyLimit(FilterToSend(storeRows), lim)
  /\ idx' = 1
  /\ w' = 1
  /\ startRows' = storeRows
  /\ attemptLog' = <<>>
  /\ writes' = 0
  /\ delays' = 0
  /\ pc' = IF to_send' = <<>> THEN "done" ELSE "send"
  /\ crashPc' = "none"
  /\ UNCHANGED <<storeHeader, storeRows, okSends, inflight, interrupts,
                 initRows,
                 renderVars, scrapeVars, socialVars>>

\* one iteration of the send loop up to the store rewrite: send_email to the
\* actual recipient, then the status and the timestamp are set on
\* rows[row_index]
Send(resp) ==
  /\ pc = "send"
  /\ LET i == to_send[idx]
         m == MarkedRow(to_send, idx)
         ok == SendSucceeded(resp)
         email == Strip(EmailOf(rows[i]))
         to == ActualRecipient(email, test_mode, TestEmail(missing))
     IN  /\ attemptLog' = Append(attemptLog,
                                 [row |-> i, ok |-> Delivered(resp), to |-> to])
         /\ okSends' = IF Delivered(resp) /\ to = email
                         THEN [okSends EXCEPT ![i] = @ + 1]
                         ELSE okSends
         /\ rows' = [rows EXCEPT ![m] =
                       Put(Put(@, "email_sent", StatusOf(ok)),
                           "email_sent_at", Timestamp(now))]
  /\ pc' = AfterMark(idx, to_send)[1]
  /\ idx' = AfterMark(idx, to_send)[2]
  /\ UNCHANGED <<storeHeader, storeRows, fieldnames, to_send, w, limit,
                 now, runs, startRows, inflight, interrupts, crashPc,
                 test_mode, missing, writes, delays, initRows,
                 renderVars, scrapeVars, socialVars>>

\* open(csv_path, 'w'): the file is truncated
OpenStore ==
  /\ pc = "open"
  /\ storeHeader' = <<>>
  /\ storeRows' = <<>>
  /\ pc' = "header"
  /\ UNCHANGED <<fieldnames, rows, to_send, idx, w, limit, now, runs,
                 startRows, attemptLog, okSends, inflight, interrupts, crashPc,
                 test_mode, missing, writes, delays, initRows,
                 renderVars, scrapeVars, socialVars>>

\* writer.writeheader()
WriteHeader ==
  /\ pc = "header"
  /\ storeHeader' = fieldnames
  /\ w' = 1
  /\ pc' = "row"
  /\ UNCHANGED <<storeRows, fieldnames, rows, to_send, idx, limit, now, runs,
                 startRows, attemptLog, okSends, inflight, interrupts, crashPc,
                 test_mode, missing, writes, delays, initRows,
                 renderVars, scrapeVars, socialVars>>

\* one iteration of `for row in rows`: fill the missing fields, write the row;
\* after the last row the file is closed and the loop goes on to the delay
\* or to its end
WriteRow ==
  /\ pc = "row"
  /\ w <= Len(rows)
  /\ rows' = [rows EXCEPT ![w] = FillMissing(@, fieldnames)]
  /\ storeRows' = Append(storeRows, WrittenRow(rows'[w], fieldnames))
  /\ IF w < Len(rows)
       THEN /\ w' = w + 1
            /\ pc' = "row"
            /\ UNCHANGED <<idx, writes>>
       ELSE /\ w' = 1
            /\ writes' = writes + 1
            /\ pc' = AfterRewrite(idx, to_send)[1]
            /\ idx' = AfterRewrite(idx, to_send)[2]
  /\ UNCHANGED <<storeHeader, fieldnames, to_send, limit, now, runs,
                 startRows, attemptLog, okSends, inflight, interrupts, crashPc,
                 test_mode, missing, delays, initRows,
                 renderVars, scrapeVars, socialVars>>

\* time.sleep(5), then the next iteration
Delay ==
  /\ pc = "delay"
  /\ delays' = delays + 1
  /\ pc' = AfterDelay(idx, to_send)[1]
  /\ idx' = AfterDelay(idx, to_send)[2]
  /\ UNCHANGED <<storeHeader, storeRows, fieldnames, rows, to_send, w, limit,
                 now, runs, startRows, attemptLog, okSends, inflight,
                     interrupts,
                 crashPc, test_mode, missing, writes, initRows,
                 renderVars, scrapeVars, socialVars>>

\* KeyboardInterrupt: nothing in process_csv catches or defers it, so the
\* process ends wherever it is; an open file is closed with what was written
Interrupt ==
  /\ pc \in Running
  /\ pc' = "interrupted"
  /\ crashPc' = pc
  /\ interrupts' = interrupts + 1
  /\ inflight' = IF pc \in {"open", "header", "row"}
                   THEN [inflight EXCEPT ![to_send[idx]] = @ + 1]
                   ELSE inflight
  /\ UNCHANGED <<storeHeader, storeRows, fieldnames, rows, to_send, idx, w,
                 limit, now, runs, startRows, attemptLog, okSends,
                 test_mode, missing, writes, delays, initRows,
                 renderVars, scrapeVars, socialVars>>

\* the steps of a run that is under way
RunStep ==
  \/ \E resp \in TransportOutcomes : Send(resp)
  \/ OpenStore
  \/ WriteHeader
  \/ WriteRow
  \/ Delay

\* production runs with everything the startup checks ask for in place
Next ==
  \/ \E lim \in LimitValues : StartRun(lim, FALSE, {})
  \/ RunStep
  \/ Interrupt

Spec == Init /\ [][Next]_vars

\* a run that is not interrupted keeps taking its steps
FairSpec == Spec /\ WF_vars(RunStep)

\* the caps tried where the mode and the startup checks are at stake: none,
\* and one that cuts the list
ModeLimits == {NoLimit, <<1>>}

\* runs in either mode, with or without something missing at startup
NextAnyStart ==
  \/ \E lim \in ModeLimits, c \in StartConfigs : StartRun(lim, c[1], c[2])
  \/ \E c \in StartConfigs : StartFails(c[1], c[2])
  \/ RunStep
  \/ Interrupt

SpecAnyStart == Init /\ [][NextAnyStart]_vars

\* ------------------------------------------------------ personalize_email
\* str.replace(old, new): every occurrence, from the left, not overlapping
RECURSIVE Replace(_, _, _)
Replace(s, old, new) ==
  IF Len(s) < Len(old) THEN s
  ELSE IF SubSeq(s, 1, Len(old)) = old
    THEN new \o Replace(SubSeq(s, Len(old) + 1, Len(s)), old, new)
    ELSE <<Head(s)>> \o Replace(Tail(s), old, new)

\* the first item of str.split() on a string already stripped on the left
RECURSIVE FirstPart(_)
FirstPart(s) ==
  IF s = <<>> \/ Head(s) \in WhiteSpace THEN <<>>
  ELSE <<Head(s)>> \o FirstPart(Tail(s))

THERE == <<"t","h","e","r","e">>
YOUR_PRODUCT == <<"y","o","u","r"," ","p","r","o","d","u","c","t">>
PH_NAME == <<"P","r","o","d","u","c","t"," ","H","u","n","t">>
HN_NAME == <<"H","a","c","k","e","r"," ","N","e","w","s">>
IH_NAME == <<"I","n","d","i","e"," ","H","a","c","k","e","r","s">>
PH_KEY == <<"p","r","o","d","u","c","t","h","u","n","t">>
HN_KEY == <<"h","a","c","k","e","r","n","e","w","s">>
IH_KEY == <<"i","n","d","i","e","h","a","c","k","e","r","s">>
FIRST_NAME_TAG == <<"{","{","F","i","r","s","t","N","a","m","e","}","}">>
PRODUCT_NAME_TAG == <<"{","{","P","r","o","d","u","c","t","N","a","m","e","}",
    "}">>
LAUNCH_PLATFORM_TAG == <<"{","{","L","a","u","n","c","h","P","l","a","t","f",
    "o","r","m","}","}">>
SUBJECT_HEAD == <<"C","o","n","g","r","a","t","s"," ","o","n"," ","l","a","u",
    "n","c","h","i","n","g"," ">>
SUBJECT_TAIL == <<"!">>

\* extract_first_name
extract_first_name(maker_name) ==
  IF maker_name = EmptyStr THEN THERE
  ELSE IF Strip(maker_name) # EmptyStr THEN FirstPart(Strip(maker_name))
  ELSE THERE

\* platform_names.get(launch_platform.lower(), launch_platform)
PlatformName(source) ==
  IF Lower(source) = PH_KEY THEN PH_NAME
  ELSE IF Lower(source) = HN_KEY THEN HN_NAME
  ELSE IF Lower(source) = IH_KEY THEN IH_NAME
  ELSE source

\* personalize_email: <<subject, body>>
personalize_email(tpl, prod) ==
  LET first_name == extract_first_name(Get(prod, "maker_name", EmptyStr))
      product_name == Get(prod, "name", YOUR_PRODUCT)
      launch_platform == PlatformName(Get(prod, "source", PH_NAME))
      body1 == Replace(tpl, FIRST_NAME_TAG, first_name)
      body2 == Replace(body1, PRODUCT_NAME_TAG, product_name)
      body3 == Replace(body2, LAUNCH_PLATFORM_TAG, launch_platform)
  IN  <<SUBJECT_HEAD \o product_name \o SUBJECT_TAIL, body3>>

\* the templates tried: the three placeholders, the product name twice, none
Templates ==
  { FIRST_NAME_TAG \o <<",">> \o PRODUCT_NAME_TAG \o <<"@">>
      \o LAUNCH_PLATFORM_TAG,
    PRODUCT_NAME_TAG \o <<" ">> \o PRODUCT_NAME_TAG,
    <<"h","e","l","l","o">> }

\* the values tried for a row's name, maker_name and source
ProductNames == {EmptyStr, <<"A","c","m","e">>}
MakerNames == {EmptyStr, <<" ">>, <<"J","a","n","e"," ","D","o","e">>, <<" ",
    "B","o"," ">>}
Sources == {EmptyStr, PH_KEY, <<"H","a","c","k","e","r","N","e","w","s">>,
    <<"b","l","o","g">>}

\* the rows tried: a row read from the store holds every column, '' where the
\* scrape found nothing; a row of a CSV made by hand may lack a column
Products ==
  LET full == [name : ProductNames, maker_name : MakerNames, source : Sources]
  IN  full
        \cup {[maker_name |-> r.maker_name, source |-> r.source] : r \in full}
        \cup {[name |-> r.name, source |-> r.source] : r \in full}

\* the delivery variables where no delivery run is looked at: a store of one
\* record without email, never run over
DeliveryIdle ==
  /\ DeliveryInit
  /\ Len(storeRows) = 1
  /\ EmailOf(storeRows[1]) = EmptyStr

RenderInit ==
  /\ DeliveryIdle
  /\ ScrapeIdle
  /\ SocialIdle
  /\ template \in Templates
  /\ product \in Products
  /\ rendered = <<>>

\* subject, body = personalize_email(template, product)
Personalize ==
  /\ rendered = <<>>
  /\ rendered' = personalize_email(template, product)
  /\ UNCHANGED <<deliveryVars, template, product, scrapeVars, socialVars>>

RenderNext == Personalize

RenderSpec == RenderInit /\ [][RenderNext]_vars

\* -------------------------------------------------- get_maker_social_links
\* the links a profile page is tried with
X_JANE == <<"h","t","t","p","s",":","/","/","x",".","c","o","m","/","J","a","n","e">>
TW_HOUSE == <<"h","t","t","p","s",":","/","/","t","w","i","t","t","e","r",".","c","o","m","/","P","r","o","d","u","c","t","H","u","n","t">>
TW_BOB == <<"h","t","t","p","s",":","/","/","t","w","i","t","t","e","r",".","c","o","m","/","b","o","b">>
IN_JANE == <<"h","t","t","p","s",":","/","/","l","i","n","k","e","d","i","n",".","c","o","m","/","i","n","/","j","a","n","e">>
IN_COMPANY == <<"h","t","t","p","s",":","/","/","l","i","n","k","e","d","i","n",".","c","o","m","/","c","o","m","p","a","n","y","/","a","c","m","e">>
GH_JANE == <<"h","t","t","p","s",":","/","/","g","i","t","h","u","b",".","c","o","m","/","j","a","n","e">>
GH_ISSUE == <<"h","t","t","p","s",":","/","/","g","i","t","h","u","b",".","c","o","m","/","j","a","n","e","/","a","p","p","/","i","s","s","u","e","s","/","3">>
IG_JANE == <<"h","t","t","p","s",":","/","/","i","n","s","t","a","g","r","a","m",".","c","o","m","/","j","a","n","e">>
DEVTO_JANE == <<"h","t","t","p","s",":","/","/","d","e","v",".","t","o","/","j","a","n","e">>
Hrefs ==
  {X_JANE, TW_HOUSE, TW_BOB, IN_JANE, IN_COMPANY, GH_JANE, GH_ISSUE, IG_JANE,
   DEVTO_JANE}

\* the substrings looked for in a lower-cased href
TWITTER_COM == <<"t","w","i","t","t","e","r",".","c","o","m","/">>
X_COM == <<"x",".","c","o","m","/">>
HOUSE_UPPER == <<"/","P","r","o","d","u","c","t","H","u","n","t">>
HOUSE_LOWER == <<"/","p","r","o","d","u","c","t","h","u","n","t">>
LINKEDIN_IN == <<"l","i","n","k","e","d","i","n",".","c","o","m","/","i","n","/">>
GITHUB_COM == <<"g","i","t","h","u","b",".","c","o","m","/">>
GithubExcluded == {<<"/","i","s","s","u","e","s">>,
   <<"/","p","u","l","l">>,
   <<"/","b","l","o","b">>,
   <<"/","t","r","e","e">>}
OtherSocials == {<<"i","n","s","t","a","g","r","a","m",".","c","o","m","/">>,
   <<"y","o","u","t","u","b","e",".","c","o","m","/">>,
   <<"f","a","c","e","b","o","o","k",".","c","o","m","/">>,
   <<"t","i","k","t","o","k",".","c","o","m","/">>,
   <<"m","e","d","i","u","m",".","c","o","m","/","@">>,
   <<"d","e","v",".","t","o","/">>,
   <<"t","h","r","e","a","d","s",".","n","e","t","/">>}
SEPARATOR == <<" ","|"," ">>
OtherLimit == 3

\* href = (link.get_attribute('href') or '').lower(), for each link tried
LoweredHref == [link \in Hrefs |-> Lower(link)]

\* `p in href`
In(p, link) == Contains(LoweredHref[link], p)

\* what each link tried has of the substrings looked for
Marks ==
  [link \in Hrefs |->
     {p \in {TWITTER_COM, X_COM, HOUSE_UPPER, HOUSE_LOWER, LINKEDIN_IN,
             GITHUB_COM} \cup GithubExcluded \cup OtherSocials : In(p, link)}]

\* `'twitter.com/' in href or 'x.com/' in href`
TwitterHost(link) == TWITTER_COM \in Marks[link] \/ X_COM \in Marks[link]

\* `'/ProductHunt' not in href and '/producthunt' not in href`
NotHouse(link) ==
  HOUSE_UPPER \notin Marks[link] /\ HOUSE_LOWER \notin Marks[link]

\* `not any(x in href for x in ['/issues', '/pull', '/blob', '/tree'])`
NoRepoPart(link) == Marks[link] \cap GithubExcluded = {}

\* `any(social in href for social in [...])`
OtherHost(link) == Marks[link] \cap OtherSocials # {}

\* a slip: a field that takes every match, so that the last one stays
Unset_Always(field) == TRUE
\* `not result['twitter']`, and the same for linkedin and github
Unset(field) == field = EmptyStr

\* result and other_socials before the loop
NoLinks ==
  [twitter |-> EmptyStr, linkedin |-> EmptyStr, github |-> EmptyStr,
   other_socials |-> <<>>]

\* one turn of `for link in all_links:`
Classify(acc, link) ==
  IF TwitterHost(link) /\ Unset(acc.twitter)
    THEN IF NotHouse(link) THEN [acc EXCEPT !.twitter = link] ELSE acc
  ELSE IF LINKEDIN_IN \in Marks[link] /\ Unset(acc.linkedin)
    THEN [acc EXCEPT !.linkedin = link]
  ELSE IF GITHUB_COM \in Marks[link] /\ Unset(acc.github)
    THEN IF NoRepoPart(link) THEN [acc EXCEPT !.github = link] ELSE acc
  ELSE IF OtherHost(link)
    THEN [acc EXCEPT !.other_socials = Append(@, link)]
  ELSE acc

RECURSIVE Loop(_, _)
\* the loop over all_links
Loop(acc, links) ==
  IF links = <<>> THEN acc ELSE Loop(Classify(acc, Head(links)), Tail(links))

RECURSIVE Join(_)
\* ' | '.join(links)
Join(links) ==
  IF links = <<>> THEN EmptyStr
  ELSE IF Len(links) = 1 THEN links[1]
  ELSE links[1] \o SEPARATOR \o Join(Tail(links))

\* other_socials[:3]
Limited(links) ==
  IF Len(links) <= OtherLimit THEN links ELSE SubSeq(links, 1, OtherLimit)

\* get_maker_social_links(page, maker_profile_url): the dict it returns when
\* the profile page shows the links, or when it fails to load
get_maker_social_links(links, ok) ==
  LET acc == IF ok THEN Loop(NoLinks, links) ELSE NoLinks
  IN  [twitter |-> acc.twitter, linkedin |-> acc.linkedin,
       github |-> acc.github,
       other_social |-> Join(Limited(acc.other_socials))]

\* the profile pages tried: up to MaxLinks links
LinkLists == UNION {[1..n -> Hrefs] : n \in 0..MaxLinks}

SocialInit ==
  /\ DeliveryIdle
  /\ RenderIdle
  /\ ScrapeIdle
  /\ all_links \in LinkLists
  /\ loaded \in BOOLEAN
  /\ result = <<>>

\* result = get_maker_social_links(page, maker_profile_url)
ExtractSocial ==
  /\ result = <<>>
  /\ result' = get_maker_social_links(all_links, loaded)
  /\ UNCHANGED <<deliveryVars, renderVars, scrapeVars, all_links, loaded>>

SocialNext == ExtractSocial

SocialSpec == SocialInit /\ [][SocialNext]_vars

\* ------------------------------------------------------ scrape_producthunt
HOME_URL == <<"h","t","t","p","s",":","/","/","w","w","w",".","p","r","o","d",
    "u","c","t","h","u","n","t",".","c","o","m">>
ACME_HREF == <<"/","p","r","o","d","u","c","t","s","/","a","c","m","e">>
BOLT_HREF == <<"/","p","r","o","d","u","c","t","s","/","b","o","l","t">>
ACME_SITE == <<"h","t","t","p","s",":","/","/","a","c","m","e",".","i","o">>
MAKER_PROFILE == <<"h","t","t","p","s",":","/","/","w","w","w",".","p","r","o",
    "d","u","c","t","h","u","n","t",".","c","o","m","/","@","seedNo","a","n",
    "e">>
FOUND_EMAIL == JANE
DIGITS == {"0", "1", "2", "3", "4", "5", "6", "7", "8", "9"}
DOT_SPACE == <<".", " ">>

\* the text of [data-test="post-name-<id>"], when the page has it
NameOf(id) == IF id = "101" THEN <<"7","."," ","A","c","m","e">> ELSE <<"B",
    "o","l","t">>

\* str.isdigit()
IsDigit(s) == s # <<>> /\ \A n \in 1..Len(s) : s[n] \in DIGITS

\* the position of the first occurrence of p in s (0 when there is none)
Find(s, p) ==
  IF Contains(s, p)
    THEN 1 + CHOOSE n \in 0..(Len(s) - Len(p)) :
               /\ SubSeq(s, n + 1, n + Len(p)) = p
               /\ \A m \in 0..(n - 1) : SubSeq(s, m + 1, m + Len(p)) # p
    ELSE 0

\* the digits of name[:6], Python's slice bound
NamePrefixLen == 6

\* `if '. ' in name[:6] and name.split('. ')[0].isdigit():
\*      name = name.split('. ', 1)[1]`
CleanName(name) ==
  LET at == Find(name, DOT_SPACE)
  IN  IF /\ Contains(SliceTo(name, NamePrefixLen), DOT_SPACE)
         /\ IsDigit(SubSeq(name, 1, at - 1))
        THEN SubSeq(name, at + Len(DOT_SPACE), Len(name))
        ELSE name

\* ph_url = f"https://www.producthunt.com{href}"
\*            if href and href.startswith("/") else href
PhUrl(href) ==
  IF href # EmptyStr /\ Head(href) = "/" THEN HOME_URL \o href ELSE href

\* a listing entry: its identifier, whether the page gives it a name, the href
\* of its link to /products/ ('' when it has none), and whether reading it
\* raises: "early" before the identifier is recorded, "late" after.  What is
\* never read of an entry is left empty.
Entries ==
  {e \in [id : PostIds, fault : {"none", "early", "late"}, named : BOOLEAN,
          href : {EmptyStr, ACME_HREF, BOLT_HREF}] :
     (e.fault # "none" \/ ~e.named) => (e.href = EmptyStr /\ ~e.named)}

\* the limits tried for a scrape: none, and one that cuts the list
ScrapeLimits == {NoLimit, <<1>>}

\* a slip: nothing is ever taken as seen
AlreadySeen_Never(post_id, seen) == FALSE

\* `if post_id in seen_ids: continue`
AlreadySeen(post_id, seen) == post_id \in seen

\* a slip: get_product_website without its try/except
Handles_NotWebsite(fn) == fn # "get_product_website"

\* the helpers that catch every Exception and return what they have
Handles(fn) ==
  fn \in {"get_product_website", "get_maker_info", "get_maker_social_links",
          "get_email_from_website"}

\* a slip: the profile is visited whether or not one was found
SocialEntered_Always(maker_profile) == TRUE

\* `if result['maker_profile']:` before get_maker_social_links
SocialEntered(maker_profile) == maker_profile # EmptyStr

\* `if website:` before get_email_from_website
EmailEntered(site) == site # EmptyStr

\* for path in ['/contact', '/about', '/support']
FallbackPaths == <<"/contact", "/about", "/support">>

\* where the loop over product_data goes once a helper returned, or the
\* exception leaves scrape_producthunt
AfterHelper(fn, raised, next) ==
  IF raised /\ ~Handles(fn) THEN "raised" ELSE next

ScrapeInit ==
  /\ DeliveryIdle
  /\ RenderIdle
  /\ ScrapeIdle
  /\ SocialIdle

\* the listings tried: up to MaxPosts entries
Listings == UNION {[1..n -> Entries] : n \in 0..MaxPosts}

\* a slip: an exception that leaves the `with` block leaves the browser as
\* it is
WithExit_Leaks(session) == session
\* the end of `with sync_playwright() as p:`, reached by `return` and by an
\* exception alike: the driver is stopped, and the browser it launched with it
WithExit(session) == IF session = "open" THEN "closed" ELSE session

\* scrape_producthunt up to the loop over posts: launch the browser, load the
\* homepage, read the entries of the listing.  A failure here (the homepage
\* does not load, or a query on the page loaded raises) is caught by nothing
\* and leaves the `with` block and the function.
LoadListing ==
  /\ spc = "idle"
  /\ \E lim \in ScrapeLimits : scrape_limit' = lim
  /\ \/ /\ \E ps \in Listings : posts' = ps
        /\ browser' = "open"
        /\ page_url' = HOME_URL
        /\ spc' = "collect"
     \/ /\ posts' = <<>>
        /\ browser' = WithExit("open")
        /\ page_url' \in {page_url, HOME_URL}
        /\ spc' = "raised"
  /\ postNo' = 1
  /\ UNCHANGED <<seen_ids, product_data, products, seedNo, pathNo, website,
                 maker_info, scrape_email, trail, firstSeen, failure,
                 deliveryVars, renderVars, socialVars,
                 probed>>

\* one iteration of `for post in posts`
Collect ==
  /\ spc = "collect"
  /\ postNo <= Len(posts)
  /\ LET post == posts[postNo]
         post_id == post.id
         name == IF post.named THEN Strip(NameOf(post_id)) ELSE EmptyStr
         seed == [name |-> CleanName(name), ph_url |-> PhUrl(post.href),
                  post_id |-> post_id, entry |-> postNo]
     IN  IF post.fault = "early" \/ AlreadySeen(post_id, seen_ids)
           THEN UNCHANGED <<seen_ids, firstSeen, product_data>>
           ELSE /\ seen_ids' = seen_ids \cup {post_id}
                /\ firstSeen' = [firstSeen EXCEPT ![post_id] = postNo]
                /\ product_data' =
                     IF post.fault = "late" \/ name = EmptyStr
                       THEN product_data
                       ELSE Append(product_data, seed)
  /\ postNo' = postNo + 1
  /\ UNCHANGED <<browser, posts, scrape_limit, products, seedNo, pathNo,
      website,
                 maker_info, scrape_email, page_url, spc, trail, failure,
                 deliveryVars, renderVars, socialVars,
                 probed>>

\* the loop over posts is over: the limit is applied, and the entries, the
\* identifiers seen and what they stood for are read no more
Cap ==
  /\ spc = "collect"
  /\ postNo > Len(posts)
  /\ product_data' = ApplyLimit(product_data, scrape_limit)
  /\ posts' = <<>>
  /\ seen_ids' = {}
  /\ firstSeen' = [i \in PostIds |-> 0]
  /\ postNo' = 1
  /\ seedNo' = 1
  /\ spc' = IF product_data' = <<>> THEN "close" ELSE "website"
  /\ UNCHANGED <<browser, scrape_limit, products, pathNo, website, maker_info,
                 scrape_email, page_url, trail, failure, deliveryVars,
                     renderVars, socialVars,
                 probed>>

\* website = get_product_website(page, data['ph_url']): the page is loaded
\* ("raise": page.goto fails, as it does for an empty URL); "none" is the page
\* without a Visit website link, or a failure after the load
ResolveWebsite(o) ==
  /\ spc = "website"
  /\ o \in {"found", "none", "raise"}
  /\ product_data[seedNo].ph_url = EmptyStr => o = "raise"
  /\ website' = IF o = "found" THEN ACME_SITE ELSE EmptyStr
  /\ page_url' = IF o = "raise" THEN page_url ELSE product_data[seedNo].ph_url
  /\ trail' = <<[st |-> "ResolveWebsite", nav |-> "detail"]>>
  /\ failure' = (o = "raise")
  /\ spc' = AfterHelper("get_product_website", o = "raise", "maker")
  /\ UNCHANGED <<browser, posts, scrape_limit, seen_ids, product_data,
                 products, postNo, seedNo, pathNo, maker_info, scrape_email,
                     firstSeen,
                 deliveryVars, renderVars, socialVars,
                 probed>>

\* maker_info = get_maker_info(page, data['ph_url']) up to the profile found
\* or not: the product page is loaded again only when page.url differs
ResolveMaker(o) ==
  /\ spc = "maker"
  /\ o \in {"profile", "none", "raise"}
  /\ LET ph_url == product_data[seedNo].ph_url
         navigates == page_url # ph_url
     IN  /\ (navigates /\ ph_url = EmptyStr) => o = "raise"
         /\ page_url' = IF o = "raise" THEN page_url ELSE ph_url
         /\ trail' = Append(trail,
                            [st |-> "ResolveMaker",
                             nav |-> IF navigates THEN "detail" ELSE "-"])
  /\ maker_info' =
       [NoMaker EXCEPT
          !.maker_profile = IF o = "profile" THEN MAKER_PROFILE ELSE EmptyStr]
  /\ failure' = (failure \/ o = "raise")
  /\ spc' = AfterHelper("get_maker_info", o = "raise",
                        IF SocialEntered(maker_info'.maker_profile)
                          THEN "social" ELSE "email")
  /\ UNCHANGED <<browser, posts, scrape_limit, seen_ids, product_data,
                 products, postNo, seedNo, pathNo, website, scrape_email,
                     firstSeen,
                 deliveryVars, renderVars, socialVars,
                 probed>>

\* get_maker_social_links(page, result['maker_profile']), called by
\* get_maker_info
ResolveSocial(o) ==
  /\ spc = "social"
  /\ o \in {"links", "none", "raise"}
  /\ maker_info.maker_profile = EmptyStr => o = "raise"
  /\ page_url' = IF o = "raise" THEN page_url ELSE maker_info.maker_profile
  /\ trail' = Append(trail, [st |-> "ResolveSocial", nav |-> "profile"])
  /\ maker_info' = [maker_info EXCEPT !.social = (o = "links")]
  /\ failure' = (failure \/ o = "raise")
  /\ spc' = AfterHelper("get_maker_social_links", o = "raise", "email")
  /\ UNCHANGED <<browser, posts, scrape_limit, seen_ids, product_data,
                 products, postNo, seedNo, pathNo, website, scrape_email,
                     firstSeen,
                 deliveryVars, renderVars, socialVars,
                 probed>>

\* email = "" and no call of get_email_from_website: no website was found
SkipEmail ==
  /\ spc = "email"
  /\ ~EmailEntered(website)
  /\ scrape_email' = EmptyStr
  /\ spc' = "record"
  /\ UNCHANGED <<browser, posts, scrape_limit, seen_ids, product_data,
                 products, postNo, seedNo, pathNo, website, maker_info,
                     page_url, trail,
                 firstSeen, failure, deliveryVars, renderVars, socialVars,
                 probed>>

\* a slip: the loop over the fallback paths without its break
StopsProbing_Never(emails) == FALSE

\* `if emails: break`
StopsProbing(emails) == emails # EmptyStr

\* the address a page of the website shows, when it shows one
EmailOn(nav) ==
  IF nav = "website" THEN FOUND_EMAIL ELSE <<nav>> \o FOUND_EMAIL

\* emails.extend(extract_emails_from_page(page)), as emails[0] will read it:
\* the first address found so far
Extended(emails, o, nav) ==
  IF emails # EmptyStr THEN emails
  ELSE IF o = "emails" THEN EmailOn(nav) ELSE EmptyStr

\* get_email_from_website: the website's main page
LoadWebsite(o) ==
  /\ spc = "email"
  /\ EmailEntered(website)
  /\ o \in {"emails", "none", "raise"}
  /\ website = EmptyStr => o = "raise"
  /\ page_url' = IF o = "raise" THEN page_url ELSE website
  /\ trail' = Append(trail, [st |-> "ResolveEmail", nav |-> "website"])
  /\ probed' = <<[page |-> "website", out |-> o]>>
  /\ scrape_email' = Extended(EmptyStr, o, "website")
  /\ failure' = (failure \/ o = "raise")
  /\ pathNo' = 1
  /\ spc' = AfterHelper("get_email_from_website", o = "raise",
                        IF o = "none" THEN "probe" ELSE "record")
  /\ UNCHANGED <<browser, posts, scrape_limit, seen_ids, product_data,
                 products, postNo, seedNo, website, maker_info, firstSeen,
                 deliveryVars, renderVars, socialVars>>

\* get_email_from_website: one iteration of the loop over the fallback paths
Probe(o) ==
  /\ spc = "probe"
  /\ o \in {"emails", "none", "raise"}
  /\ page_url' = IF o = "raise" THEN page_url
                 ELSE website \o <<FallbackPaths[pathNo]>>
  /\ trail' = Append(trail, [st |-> "ResolveEmail",
                             nav |-> FallbackPaths[pathNo]])
  /\ probed' = Append(probed, [page |-> FallbackPaths[pathNo], out |-> o])
  /\ scrape_email' = Extended(scrape_email, o, FallbackPaths[pathNo])
  /\ failure' = (failure \/ o = "raise")
  /\ IF ~(o # "raise" /\ StopsProbing(scrape_email'))
          /\ pathNo < Len(FallbackPaths)
       THEN /\ pathNo' = pathNo + 1
            /\ spc' = "probe"
       ELSE /\ pathNo' = 1
            /\ spc' = "record"
  /\ UNCHANGED <<browser, posts, scrape_limit, seen_ids, product_data,
                 products, postNo, seedNo, website, maker_info, firstSeen,
                 deliveryVars, renderVars, socialVars>>

\* products.append(Product(...)), then the next seed record or the end of
\* the loop
Record ==
  /\ spc = "record"
  /\ products' =
       Append(products,
              [name |-> product_data[seedNo].name,
               ph_url |-> product_data[seedNo].ph_url,
               website |-> website,
               email |-> scrape_email,
               maker_profile |-> maker_info.maker_profile,
               social |-> maker_info.social,
               post_id |-> product_data[seedNo].post_id,
               failure |-> failure])
  /\ website' = EmptyStr
  /\ maker_info' = NoMaker
  /\ scrape_email' = EmptyStr
  /\ trail' = <<>>
  /\ probed' = <<>>
  /\ failure' = FALSE
  /\ IF seedNo < Len(product_data)
       THEN /\ seedNo' = seedNo + 1
            /\ spc' = "website"
       ELSE /\ seedNo' = seedNo
            /\ spc' = "close"
  /\ UNCHANGED <<browser, posts, scrape_limit, seen_ids, product_data, postNo,
      pathNo,
                 page_url, firstSeen, deliveryVars, renderVars, socialVars>>

\* browser.close(), the end of the `with` block, then `return products`
Close ==
  /\ spc = "close"
  /\ browser' = WithExit("closed")
  /\ spc' = "returned"
  /\ UNCHANGED <<posts, scrape_limit, seen_ids, product_data, products, postNo,
      seedNo,
                 pathNo, website, maker_info, scrape_email, page_url, trail,
                     firstSeen,
                 failure, deliveryVars, renderVars, socialVars,
                 probed>>

\* the steps of a scrape run once the listing is read
ScrapeStep ==
  \/ Collect
  \/ Cap
  \/ \E o \in {"found", "none", "raise"} : ResolveWebsite(o)
  \/ \E o \in {"profile", "none", "raise"} : ResolveMaker(o)
  \/ \E o \in {"links", "none", "raise"} : ResolveSocial(o)
  \/ SkipEmail
  \/ \E o \in {"emails", "none", "raise"} : LoadWebsite(o)
  \/ \E o \in {"emails", "none", "raise"} : Probe(o)
  \/ Record
  \/ Close

ScrapeNext ==
  \/ LoadListing
  \/ ScrapeStep

ScrapeSpec == ScrapeInit /\ [][ScrapeNext]_vars

\* the function runs on: no step of a scrape is held back for ever
FairScrapeSpec == ScrapeSpec /\ WF_vars(ScrapeStep)

\* ------------------------------------------------------ reading the state
\* a row's status fields as process_csv reads them (a missing column is '')
StatusIn(row) == Get(row, "email_sent", EmptyStr)
StampIn(row) == Get(row, "email_sent_at", EmptyStr)

\* number of send attempts the current run made for row i
AttemptsOf(i) == Cardinality({k \in 1..Len(attemptLog) : attemptLog[k].row = i})

\* where the process is, or was when it was interrupted
PcEff == IF pc = "interrupted" THEN crashPc ELSE pc

\* no rewrite of the store is under way, and none was cut short
StoreAtRest == PcEff \in {"ready", "send", "open", "delay", "done"}

\* the status the claims expect for an attempt the transport took, or did not
ExpectedStatus(ok) == IF ok THEN SENT ELSE FAILED

\* the claims' reading of the denylist: the email holds one of the substrings
DenylistedIds ==
  {e \in EmailIds : \E p \in invalid_patterns : Contains(Emails[e], p)}

\* the emails that are empty once trimmed
EmptyIds == {e \in EmailIds : Strip(Emails[e]) = EmptyStr}

Denylisted(row) == row["email"] \in DenylistedIds

\* the claims' eligibility: trimmed email non-empty, not `sent`, not denylisted
Eligible(row) ==
  /\ row["email"] \notin EmptyIds
  /\ StatusIn(row) # SENT
  /\ ~Denylisted(row)

\* --------------------------------------------------------------------- C1
\* C1: a record whose email_sent is `sent` when a run reads the store gets no
\* send attempt in that run, and its email_sent and email_sent_at stay as they
\* were, in memory and in the store (where a rewrite of the store was not cut
\* short the record is still there).
C1_SentIsTerminal ==
  pc # "ready" =>
    \A i \in 1..Len(startRows) :
      StatusIn(startRows[i]) = SENT =>
        /\ AttemptsOf(i) = 0
        /\ StatusIn(rows[i]) = SENT
        /\ StampIn(rows[i]) = StampIn(startRows[i])
        /\ i <= Len(storeRows) =>
             /\ StatusIn(storeRows[i]) = SENT
             /\ StampIn(storeRows[i]) = StampIn(startRows[i])
        /\ StoreAtRest => i <= Len(storeRows)

\* a later run that found a `sent` record, made an attempt for another record
\* and rewrote the store
C1_Witness ==
  /\ pc = "done"
  /\ attemptLog # <<>>
  /\ \E i \in 1..Len(startRows) : StatusIn(startRows[i]) = SENT

\* --------------------------------------------------------------------- C2
\* C2: once the store write for the k-th selected record has completed (and
\* before the next send), the store shows the first k selected records with
\* the status of their own outcome and the other selected records with their
\* status fields as they were before the run, still eligible; this is the
\* store an interrupt arriving then leaves behind.
C2_AfterWriteK ==
  (PcEff \in {"send", "delay", "done"} /\ attemptLog # <<>>) =>
    LET k == Len(attemptLog) IN
    /\ Len(storeRows) = Len(startRows)
    /\ \A j \in 1..Len(to_send) :
         LET r == to_send[j] IN
         IF j <= k
           THEN /\ attemptLog[j].row = r
                /\ StatusIn(storeRows[r]) = ExpectedStatus(attemptLog[j].ok)
                /\ StampIn(storeRows[r]) # EmptyStr
           ELSE /\ StatusIn(storeRows[r]) = StatusIn(startRows[r])
                /\ StampIn(storeRows[r]) = StampIn(startRows[r])
                /\ Eligible(storeRows[r])

\* interrupted after the first of two store writes, the first send having failed
C2_Witness ==
  /\ pc = "interrupted"
  /\ crashPc = "delay"
  /\ Len(to_send) = 2
  /\ Len(attemptLog) = 1
  /\ ~attemptLog[1].ok

\* --------------------------------------------------------------------- C3
RECURSIVE SumTo(_, _)
SumTo(f, n) == IF n = 0 THEN 0 ELSE f[n] + SumTo(f, n - 1)

\* C3: over all runs, a record is successfully sent to at most once more than
\* the number of interrupts that arrived while it was in flight (sent, its
\* store write not completed), and every interrupt has at most one record in
\* flight: with one interrupt at most one record is sent to twice, the one in
\* flight, and every other record at most once.
C3_DuplicatesBoundedByInterrupts ==
  /\ \A i \in DOMAIN okSends : okSends[i] <= 1 + inflight[i]
  /\ SumTo(inflight, Len(inflight)) <= interrupts
  /\ interrupts <= 1 => Cardinality({i \in DOMAIN okSends : okSends[i] >= 2}) <= 1

\* one interrupt, the re-run completed, and a record was sent to twice
C3_Witness ==
  /\ pc = "done"
  /\ interrupts = 1
  /\ \E i \in DOMAIN okSends : okSends[i] = 2

\* --------------------------------------------------------------------- C4
\* C4: after an interrupt the store holds its header and all its record rows
\* (the interrupt never cuts a rewrite of the store short).
C4_StoreCompleteAfterInterrupt ==
  pc = "interrupted" =>
    /\ storeHeader # <<>>
    /\ Len(storeRows) = Len(startRows)

\* --------------------------------------------------------------------- C5
\* C5: in a run with no cap, only eligible records get a send attempt, none
\* gets more than one, and when the run has completed every eligible record
\* has got exactly one.
C5_AttemptIffEligible ==
  (pc # "ready" /\ limit = NoLimit) =>
    \A i \in 1..Len(startRows) :
      /\ AttemptsOf(i) <= 1
      /\ AttemptsOf(i) = 1 => Eligible(startRows[i])
      /\ (pc = "done" /\ Eligible(startRows[i])) => AttemptsOf(i) = 1

\* an uncapped run completed with one record attempted and a record whose
\* email is blank once trimmed left alone
C5_Witness ==
  /\ pc = "done"
  /\ limit = NoLimit
  /\ \E i, j \in 1..Len(startRows) :
       /\ AttemptsOf(i) = 1
       /\ EmailOf(startRows[j]) = BLANK
       /\ AttemptsOf(j) = 0

\* --------------------------------------------------------------------- C6
\* the rows to_send holds
Selected == {to_send[k] : k \in 1..Len(to_send)}

\* C6: in every run a record not yet `sent` whose non-empty email is on the
\* denylist (test@example.com, info@footer.email) is marked `skipped` with a
\* non-empty email_sent_at and never reaches the transport; a record with
\* jane@acme.io not yet `sent` is not marked `skipped` and is selected (it is
\* in to_send unless the cap cut the list before it).
C6_DenylistedSkippedJaneSelected ==
  pc # "ready" =>
    \A i \in 1..Len(startRows) :
      /\ ( /\ StatusIn(startRows[i]) # SENT
           /\ EmailOf(startRows[i]) # EmptyStr
           /\ Denylisted(startRows[i]) ) =>
           /\ StatusIn(rows[i]) = SKIPPED
           /\ StampIn(rows[i]) # EmptyStr
           /\ i \notin Selected
           /\ AttemptsOf(i) = 0
      /\ ( /\ StatusIn(startRows[i]) # SENT
           /\ EmailOf(startRows[i]) = JANE ) =>
           /\ StatusIn(rows[i]) # SKIPPED
           /\ \/ i \in Selected
              \/ limit # NoLimit /\ \A r \in Selected : r < i

\* a run that skipped one of the two named addresses and sent to jane@acme.io
C6_Witness ==
  /\ pc = "done"
  /\ \E i, j \in 1..Len(startRows) :
       /\ EmailOf(startRows[i]) \in {TEST_EXAMPLE, INFO_FOOTER}
       /\ StatusIn(rows[i]) = SKIPPED
       /\ EmailOf(startRows[j]) = JANE
       /\ AttemptsOf(j) = 1

\* --------------------------------------------------------------------- C7
\* C7: once a record's email_sent is `skipped`, in memory or in the store, no
\* step makes a send attempt for it and no step leaves it `sent` or `failed`.
C7_SkippedIsTerminal ==
  [][ \A i \in DOMAIN okSends :
        ( \/ i <= Len(storeRows) /\ StatusIn(storeRows[i]) = SKIPPED
          \/ i <= Len(rows) /\ StatusIn(rows[i]) = SKIPPED ) =>
          /\ i <= Len(storeRows') => StatusIn(storeRows'[i]) \notin {SENT,
              FAILED}
          /\ i <= Len(rows') => StatusIn(rows'[i]) \notin {SENT, FAILED}
          /\ \A k \in 1..Len(attemptLog') : attemptLog'[k].row # i
          /\ okSends'[i] = okSends[i] ]_vars

\* a later run found a record `skipped` in the store and made an attempt for
\* another record
C7_Witness ==
  /\ pc = "done"
  /\ attemptLog # <<>>
  /\ \E i \in 1..Len(startRows) : StatusIn(startRows[i]) = SKIPPED

\* --------------------------------------------------------------------- C8
\* C8: a record the store holds as `failed` when an uncapped run reads it gets
\* one new send attempt in that run; a record whose attempt succeeded is
\* `sent` in memory at once and in the store when its write has completed.
C8_FailedIsRetried ==
  /\ (pc = "done" /\ limit = NoLimit) =>
       \A i \in 1..Len(startRows) :
         StatusIn(startRows[i]) = FAILED => AttemptsOf(i) = 1
  /\ pc # "ready" =>
       \A k \in 1..Len(attemptLog) :
         LET i == attemptLog[k].row IN
         (StatusIn(startRows[i]) = FAILED /\ attemptLog[k].ok) =>
           /\ StatusIn(rows[i]) = SENT
           /\ (PcEff \in {"send", "delay",
               "done"}) => StatusIn(storeRows[i]) = SENT

\* an uncapped run completed and turned a `failed` record into `sent`
C8_Witness ==
  /\ pc = "done"
  /\ limit = NoLimit
  /\ \E i \in 1..Len(startRows) :
       /\ StatusIn(startRows[i]) = FAILED
       /\ StatusIn(storeRows[i]) = SENT

\* --------------------------------------------------------------------- C9
\* the eligible rows of the store the run read, in store order
EligibleRows ==
  LET keep(i) == Eligible(startRows[i])
  IN  SelectSeq(Indexes(Len(startRows)), keep)

Min(a, b) == IF a < b THEN a ELSE b

\* C9: with a cap N given (any integer, 0 included) a run makes at most N
\* send attempts (none for N < 0), and a completed run has attempted exactly
\* the first min(N, number of eligible) eligible records, in store order.
C9_CapBoundsAttempts ==
  (pc # "ready" /\ limit # NoLimit) =>
    LET N == IF limit[1] < 0 THEN 0 ELSE limit[1] IN
    /\ Len(attemptLog) <= N
    /\ pc = "done" =>
         /\ Len(attemptLog) = Min(N, Len(EligibleRows))
         /\ \A k \in 1..Len(attemptLog) : attemptLog[k].row = EligibleRows[k]

\* -------------------------------------------------------------------- C10
\* C10: a transport failure (an exception, or a response without id) is
\* recorded as `failed` on the record attempted and nowhere else, and the run
\* goes on: a run under way always has a next step, and a run that completed
\* has made exactly one attempt per selected record, in order, each record
\* carrying `sent` or `failed` by its own outcome in memory and in the store,
\* every other record keeping the status the filter left it.
C10_FailureDoesNotStopRun ==
  /\ pc \in Running => ENABLED RunStep
  /\ pc # "ready" =>
       /\ \A k \in 1..Len(attemptLog) :
            /\ attemptLog[k].row = to_send[k]
            /\ StatusIn(rows[to_send[k]]) = ExpectedStatus(attemptLog[k].ok)
       /\ \A i \in 1..Len(rows) :
            AttemptsOf(i) = 0 =>
              StatusIn(rows[i]) \in {StatusIn(startRows[i]), SKIPPED}
  /\ pc = "done" =>
       /\ Len(attemptLog) = Len(to_send)
       /\ \A i \in Selected : AttemptsOf(i) = 1
       /\ attemptLog # <<>> =>
            \A k \in 1..Len(attemptLog) :
              StatusIn(storeRows[to_send[k]]) = ExpectedStatus(attemptLog[k].ok)

\* under FairSpec every run that is under way ends, completed or interrupted
RunEnds == (pc \in Running) ~> (pc \in {"done", "interrupted"})

\* a run completed after a transport failure on its first record, with the
\* second record sent
C10_Witness ==
  /\ pc = "done"
  /\ Len(attemptLog) = 2
  /\ ~attemptLog[1].ok
  /\ attemptLog[2].ok
  /\ StatusIn(storeRows[to_send[1]]) = FAILED
  /\ StatusIn(storeRows[to_send[2]]) = SENT

\* -------------------------------------------------------------------- C11
\* C11: when a send attempt is about to start, the store has been rewritten
\* once for every earlier attempt of the run, it holds the entire record set
\* as memory holds it, and every earlier attempt's status is in it; a run that
\* completed has made as many rewrites as attempts, and at no point do the
\* attempts run more than one ahead of the rewrites.
C11_WriteBeforeNextSend ==
  /\ pc = "send" =>
       /\ writes = Len(attemptLog)
       /\ Len(storeRows) = Len(rows)
       /\ attemptLog # <<>> =>
            /\ storeHeader = fieldnames
            /\ storeRows = rows
            /\ \A k \in 1..Len(attemptLog) :
                 StatusIn(storeRows[attemptLog[k].row])
                   = ExpectedStatus(attemptLog[k].ok)
  /\ pc \in {"delay", "done"} => writes = Len(attemptLog)
  /\ pc # "ready" => Len(attemptLog) - writes \in {0, 1}

\* the second attempt of a run is about to start and the first one's status
\* is in the store
C11_Witness ==
  /\ pc = "send"
  /\ Len(attemptLog) = 1
  /\ writes = 1
  /\ StatusIn(storeRows[attemptLog[1].row]) \in {SENT, FAILED}

\* -------------------------------------------------------------------- C12
\* the discovery columns of a row
DiscoveryOf(row) ==
  [f \in {DiscoveryColumns[k] : k \in 1..Len(DiscoveryColumns)} |-> row[f]]

StatusColumns == {"email_sent", "email_sent_at"}

\* what the rewrites of the store keep, interrupted or not: every record of
\* the store, and every row in memory, is the record that stood at the same
\* place before the first run, with the same discovery fields and at most the
\* two status fields added, and the header keeps the discovery columns first
DiscoveryFrameKept ==
  /\ Len(storeRows) <= Len(initRows)
  /\ \A i \in 1..Len(storeRows) :
       /\ DiscoveryOf(storeRows[i]) = DiscoveryOf(initRows[i])
       /\ DOMAIN storeRows[i] \subseteq (DOMAIN initRows[i]) \cup StatusColumns
  /\ \A i \in 1..Len(rows) :
       /\ DiscoveryOf(rows[i]) = DiscoveryOf(initRows[i])
       /\ DOMAIN rows[i] \subseteq (DOMAIN initRows[i]) \cup StatusColumns
  /\ storeHeader # <<>> =>
       SubSeq(storeHeader, 1, Len(DiscoveryColumns)) = DiscoveryColumns

\* C12: wherever no rewrite of the store is under way, the store holds the
\* records it held before the first run, in the same order, each with the
\* discovery fields it had then and at most the two status fields added.
C12_StoreKeepsRecords ==
  pc \notin {"header", "row"} =>
    /\ Len(storeRows) = Len(initRows)
    /\ \A i \in 1..Len(storeRows) :
         /\ DiscoveryOf(storeRows[i]) = DiscoveryOf(initRows[i])
         /\ DOMAIN storeRows[i] \subseteq (DOMAIN initRows[i]) \cup StatusColumns

\* -------------------------------------------------------------------- C13
\* C13: in a test-mode run every send attempt goes to the configured test
\* address, which is not the record's own email, and the email of every row
\* in memory and of every record in the store is the one the run read.
C13_TestModeRecipient ==
  test_mode =>
    /\ \A k \in 1..Len(attemptLog) :
         /\ attemptLog[k].to = QA_INBOX
         /\ attemptLog[k].to # Strip(EmailOf(startRows[attemptLog[k].row]))
    /\ \A i \in 1..Len(rows) : rows[i]["email"] = startRows[i]["email"]
    /\ \A i \in 1..Len(storeRows) :
         storeRows[i]["email"] = startRows[i]["email"]

\* a test-mode run completed with an attempt made and the store rewritten
C13_Witness ==
  /\ test_mode
  /\ pc = "done"
  /\ Len(attemptLog) >= 1
  /\ attemptLog[1].to = QA_INBOX
  /\ writes >= 1
  /\ EmailOf(storeRows[attemptLog[1].row]) = JANE

\* -------------------------------------------------------------------- C14
\* the configuration errors: credentials, template or input file missing, or
\* test mode without a test address
ConfigError ==
  \/ missing \cap {"credentials", "template", "csv_file"} # {}
  \/ test_mode /\ "test_email" \in missing

\* C14: a run with a configuration error has stopped at startup: it holds no
\* row, has selected nothing, has made no attempt and no rewrite, cannot take
\* a step of the send loop, and the store's records are as it found them.
C14_ConfigErrorStopsAtStartup ==
  ConfigError =>
    /\ pc = "exited"
    /\ rows = <<>>
    /\ to_send = <<>>
    /\ attemptLog = <<>>
    /\ writes = 0
    /\ storeRows = startRows
    /\ ~ENABLED RunStep

\* a test-mode run without a test address stopped at startup over a store
\* with a record that a valid run would have sent
C14_Witness ==
  /\ pc = "exited"
  /\ test_mode
  /\ missing = {"test_email"}
  /\ \E i \in 1..Len(storeRows) : Eligible(storeRows[i])

\* -------------------------------------------------------------------- C15
\* C15: with m attempts made so far, a run has slept m times when the next
\* attempt is about to start, m - 1 times while the store is rewritten for
\* attempt m and while it is about to sleep (then with the rewrite done and a
\* record still to send), and m - 1 times (0 when m = 0) once it completed.
C15_DelayBetweenAttempts ==
  LET m == Len(attemptLog) IN
  /\ PcEff = "send" => delays = m
  /\ PcEff \in {"open", "header", "row"} => delays = m - 1
  /\ PcEff = "delay" => delays = m - 1 /\ writes = m /\ m < Len(to_send)
  /\ PcEff = "done" => delays = (IF m = 0 THEN 0 ELSE m - 1)

\* a run completed with two attempts and one delay
C15_Witness ==
  /\ pc = "done"
  /\ Len(attemptLog) = 2
  /\ writes = 2
  /\ delays = 1

\* -------------------------------------------------------------------- C16
\* a row as csv.DictReader gives it for a store written by save_to_csv: every
\* column is a key of the row
ReadFromStore(prod) == {"name", "maker_name", "source"} \subseteq DOMAIN prod

\* the body the template gives with the three values put in
BodyWith(tpl, first, name, platform) ==
  Replace(Replace(Replace(tpl, FIRST_NAME_TAG, first), PRODUCT_NAME_TAG, name),
          LAUNCH_PLATFORM_TAG, platform)

\* what holds of the greeting: for a row read from the store with an empty
\* maker_name the body carries the generic greeting
GreetingDefaults ==
  (rendered # <<>> /\ ReadFromStore(product)
     /\ product["maker_name"] = EmptyStr) =>
    rendered[2] = BodyWith(template, THERE,
                           Get(product, "name", YOUR_PRODUCT),
                           PlatformName(product["source"]))

\* C16: for a row read from the store, the subject and the body carry "your
\* product" where the name is empty and the name itself where it is not, and
\* the body carries the generic greeting where maker_name is empty.
C16_EmptyNameDefaults ==
  (rendered # <<>> /\ ReadFromStore(product)) =>
    LET name == product["name"]
        maker == product["maker_name"]
        shown == IF name = EmptyStr THEN YOUR_PRODUCT ELSE name
        first == IF maker = EmptyStr THEN THERE ELSE extract_first_name(maker)
    IN  /\ rendered[1] = SUBJECT_HEAD \o shown \o SUBJECT_TAIL
        /\ rendered[2] = BodyWith(template, first, shown,
                                  PlatformName(product["source"]))

\* -------------------------------------------------------------------- C17
\* the loop over posts is over and the limit not yet applied
Collected == spc = "collect" /\ postNo > Len(posts)

\* C17 as stated: no two Products of the output have the same ph_url.
C17_NoSharedPhUrl ==
  \A a, b \in 1..Len(products) :
    a # b => products[a].ph_url # products[b].ph_url

\* C17: no two seed records and no two Products come from entries with the
\* same listing identifier: an entry whose identifier is in seen_ids is
\* discarded, and the seed record of an identifier is built from the entry
\* that put it there, the first with that identifier that could be read.
\* Products whose identifiers differ may have the same ph_url, or none.
C17_NoSharedIdentifier ==
  /\ \A a, b \in 1..Len(product_data) :
       a # b => product_data[a].post_id # product_data[b].post_id
  /\ \A a, b \in 1..Len(products) :
       a # b => products[a].post_id # products[b].post_id
  /\ spc = "collect" =>
       \A n \in 1..Len(product_data) :
         LET seed == product_data[n]
         IN  /\ seed.entry = firstSeen[seed.post_id]
             /\ posts[seed.entry].id = seed.post_id
             /\ seed.ph_url = PhUrl(posts[seed.entry].href)
             /\ \A m \in 1..(seed.entry - 1) :
                  posts[m].id = seed.post_id => posts[m].fault = "early"

\* two entries with one identifier and different links gave one seed record,
\* built from the first
C17_Witness ==
  /\ Collected
  /\ Len(posts) = 2
  /\ posts[1].id = posts[2].id
  /\ posts[1].named /\ posts[2].named
  /\ posts[1].href = ACME_HREF
  /\ posts[2].href = BOLT_HREF
  /\ Len(product_data) = 1
  /\ product_data[1].ph_url = PhUrl(ACME_HREF)

\* -------------------------------------------------------------------- C18
\* C18: once the listing is walked, an identifier that two entries share has
\* exactly one seed record, built from the first of its entries.
C18_OneSeedPerSharedIdentifier ==
  Collected =>
    \A id \in PostIds :
      LET of == {m \in 1..Len(posts) : posts[m].id = id}
          seeds == {n \in 1..Len(product_data) : product_data[n].post_id = id}
      IN  Cardinality(of) >= 2 =>
            /\ Cardinality(seeds) = 1
            /\ \A n \in seeds :
                 \A m \in of : product_data[n].entry <= m

\* -------------------------------------------------------------------- C19
\* a seed record is being processed
Navigating == spc \in {"website", "maker", "social", "email", "probe", "record"}

\* C19: while the seed records are processed and after, the output holds one
\* Product for every seed record done with, in seed order, with the seed's
\* name and ph_url, and with an empty email where it has no website; the
\* processing of a seed record always has a next step, and no failure while
\* a seed record is processed leaves the function.
C19_EverySeedYieldsProduct ==
  /\ Navigating => Len(products) = seedNo - 1
  /\ spc \in {"close", "returned"} => Len(products) = Len(product_data)
  /\ Len(products) <= Len(product_data)
  /\ \A n \in 1..Len(products) :
       /\ products[n].name = product_data[n].name
       /\ products[n].ph_url = product_data[n].ph_url
       /\ products[n].post_id = product_data[n].post_id
       /\ products[n].website = EmptyStr => products[n].email = EmptyStr
  /\ Navigating => ENABLED ScrapeStep
  /\ spc = "raised" => product_data = <<>> /\ products = <<>>

\* under FairScrapeSpec the processing of the seed records comes to its end
ScrapeReturns == Navigating ~> (spc = "returned")

\* a run returned two Products, the first after a failed navigation and
\* without website or email, the second with a website
C19_Witness ==
  /\ spc = "returned"
  /\ Len(products) = 2
  /\ products[1].failure
  /\ products[1].website = EmptyStr
  /\ products[1].email = EmptyStr
  /\ products[2].website # EmptyStr

\* -------------------------------------------------------------------- C20
\* the order of the Navigator's states
StateOrder ==
  <<"ResolveWebsite", "ResolveMaker", "ResolveSocial", "ResolveEmail">>

StateRank(st) == CHOOSE r \in 1..Len(StateOrder) : StateOrder[r] = st

\* the entries of the trail for a state
Entered(st) == {a \in 1..Len(trail) : trail[a].st = st}

\* C20: the states entered for a product follow the order ResolveWebsite,
\* ResolveMaker, ResolveSocial, ResolveEmail, each entered at most once but
\* for the pages ResolveEmail loads; ResolveWebsite and ResolveMaker are always
\* entered; ResolveSocial is entered, and the profile page loaded, exactly when
\* a maker profile was found; ResolveEmail is entered, and the website loaded,
\* exactly when a website was found; a state not entered leaves its facts
\* empty when the product is recorded (Done).
C20_FixedStateOrder ==
  /\ \A a, b \in 1..Len(trail) :
       a < b =>
         /\ StateRank(trail[a].st) <= StateRank(trail[b].st)
         /\ trail[a].st = trail[b].st => trail[a].st = "ResolveEmail"
  /\ spc \in {"maker", "social", "email", "probe", "record"} =>
       /\ trail # <<>>
       /\ trail[1] = [st |-> "ResolveWebsite", nav |-> "detail"]
  /\ spc \in {"social", "email", "probe", "record"} =>
       /\ Len(trail) >= 2
       /\ trail[2].st = "ResolveMaker"
       /\ trail[2].nav \in {"detail", "-"}
  /\ \A a \in 1..Len(trail) :
       /\ trail[a].nav = "profile" <=> trail[a].st = "ResolveSocial"
       /\ trail[a].st = "ResolveSocial" => maker_info.maker_profile # EmptyStr
       /\ trail[a].st = "ResolveEmail" =>
            /\ website # EmptyStr
            /\ trail[a].nav \in {"website"}
                 \cup {FallbackPaths[n] : n \in 1..Len(FallbackPaths)}
  /\ spc \in {"email", "probe", "record"} =>
       IF maker_info.maker_profile = EmptyStr
         THEN Entered("ResolveSocial") = {} /\ ~maker_info.social
         ELSE Cardinality(Entered("ResolveSocial")) = 1
  /\ spc = "record" =>
       IF website = EmptyStr
         THEN Entered("ResolveEmail") = {} /\ scrape_email = EmptyStr
         ELSE \E a \in Entered("ResolveEmail") : trail[a].nav = "website"

\* a product about to be recorded after the four states, the product page
\* loaded once, the profile and the website loaded, one fallback path probed
C20_Witness ==
  /\ spc = "record"
  /\ Len(trail) = 5
  /\ trail[2] = [st |-> "ResolveMaker", nav |-> "-"]
  /\ trail[3] = [st |-> "ResolveSocial", nav |-> "profile"]
  /\ trail[4] = [st |-> "ResolveEmail", nav |-> "website"]
  /\ trail[5] = [st |-> "ResolveEmail", nav |-> "/contact"]
  /\ scrape_email = EmailOn("/contact")

\* -------------------------------------------------------------------- C21
\* the pages get_email_from_website may load, in order
EmailPages == <<"website">> \o FallbackPaths

\* the pages loaded so far that showed an address
Yielding == {a \in 1..Len(probed) : probed[a].out = "emails"}

\* C21: for a product with a website, the pages loaded are the landing page
\* and then the fallback paths in their order, without gap; a fallback path
\* is loaded only after a landing page that loaded and showed no address; no
\* page is loaded after one that showed an address; a fallback path that
\* fails to load, or shows no address, is followed by the next one until all
\* three were tried; and the email kept when the product is recorded is the
\* address of the first page that showed one, or empty when none did.
C21_FallbackProbing ==
  /\ Len(probed) <= Len(EmailPages)
  /\ \A a \in 1..Len(probed) : probed[a].page = EmailPages[a]
  /\ \A a \in 1..Len(probed) : a < Len(probed) => probed[a].out # "emails"
  /\ Len(probed) >= 2 => probed[1].out = "none"
  /\ spc = "probe" =>
       /\ website # EmptyStr
       /\ Len(probed) = pathNo
       /\ Yielding = {}
  /\ (spc = "record" /\ website # EmptyStr) =>
       /\ probed # <<>>
       /\ probed[1].out = "none" =>
            \/ probed[Len(probed)].out = "emails"
            \/ Len(probed) = Len(EmailPages)
       /\ scrape_email =
            (IF Yielding = {} THEN EmptyStr
             ELSE EmailOn(probed[CHOOSE a \in Yielding :
                                   \A b \in Yielding : a <= b].page))

\* a landing page without address, /contact failing to load, /about showing
\* an address: /support is not loaded and the address of /about is kept
C21_Witness ==
  /\ spc = "record"
  /\ probed = <<[page |-> "website", out |-> "none"],
                [page |-> "/contact", out |-> "raise"],
                [page |-> "/about", out |-> "emails"]>>
  /\ scrape_email = EmailOn("/about")

\* -------------------------------------------------------------------- C22
\* a link that qualifies for the twitter field: twitter or x, and not the
\* Product Hunt house account
TwitterLink(link) == TwitterHost(link) /\ NotHouse(link)

\* a link that qualifies for the linkedin field: a profile under /in/
LinkedinLink(link) == LINKEDIN_IN \in Marks[link]

\* a link that qualifies for the github field: no issue, pull, blob or tree
GithubLink(link) == GITHUB_COM \in Marks[link] /\ NoRepoPart(link)

\* the first link of a list, '' when there is none
FirstOrEmpty(links) == IF links = <<>> THEN EmptyStr ELSE Head(links)

\* the other links of the page, in the order of the page
OtherLinks == SelectSeq(all_links, OtherHost)

C23_SessionClosedOnExit ==
  /\ spc \in {"returned", "raised"} => browser = "closed"
  /\ browser = "open" => spc \notin {"idle", "returned", "raised"}
  /\ spc = "idle" => browser = "none"

\* the homepage loaded and reading the listing raised: the function is left
\* by the exception and the session is closed
C23_Witness ==
  /\ spc = "raised"
  /\ page_url = HOME_URL
  /\ browser = "closed"

\* -------------------------------------------------------------------- C24
\* the run gave record i a status: by a send attempt, or at the filter
MarkedByRun(i) == AttemptsOf(i) > 0 \/ FilterSkips(startRows[i])

\* C24: when a run has completed without interruption, every record the run
\* marked `sent`, `failed` or `skipped` has that status and its timestamp in
\* the store, also when the run attempted no record.
C24_CompletedRunPersistsStatuses ==
  pc = "done" =>
    \A i \in 1..Len(rows) :
      MarkedByRun(i) =>
        /\ StatusIn(rows[i]) \in {SENT, FAILED, SKIPPED}
        /\ i <= Len(storeRows)
        /\ StatusIn(storeRows[i]) = StatusIn(rows[i])
        /\ StampIn(storeRows[i]) = StampIn(rows[i])

\* what does hold: a completed run that made an attempt has every status it
\* gave in the store
PersistedWhenAttempted ==
  (pc = "done" /\ attemptLog # <<>>) =>
    \A i \in 1..Len(rows) :
      MarkedByRun(i) =>
        /\ i <= Len(storeRows)
        /\ StatusIn(storeRows[i]) = StatusIn(rows[i])
        /\ StampIn(storeRows[i]) = StampIn(rows[i])

\* -------------------------------------------------------------------- C25
\* C25: whatever runs, interrupts and rewrites the store went through since
\* it held no status at all, every record in it has email_sent absent (or
\* empty), `sent`, `failed` or `skipped`, and has a timestamp exactly when it
\* has a status.
C25_StatusAndTimestampPaired ==
  \A i \in 1..Len(storeRows) :
    /\ StatusIn(storeRows[i]) \in {EmptyStr, SENT, FAILED, SKIPPED}
    /\ StampIn(storeRows[i]) # EmptyStr <=> StatusIn(storeRows[i]) # EmptyStr

\* a completed run left in the store a record skipped at the filter and a
\* record sent to, each with its timestamp
C25_Witness ==
  /\ pc = "done"
  /\ \E i, j \in 1..Len(storeRows) :
       /\ StatusIn(storeRows[i]) = SKIPPED
       /\ StampIn(storeRows[i]) # EmptyStr
       /\ StatusIn(storeRows[j]) = SENT
       /\ StampIn(storeRows[j]) # EmptyStr

\* -------------------------------------------------------------------- C26
\* the rewrite that follows the latest attempt has completed, or the process
\* was stopped after it had
AttemptsWritten == PcEff \in {"send", "delay", "done"}

\* C26: an attempt the transport took marks the record `sent`, in test mode
\* as in production: on the row at once, in the store once the rewrite that
\* follows has completed; and a production run makes no attempt for a record
\* the store it read held as `sent`, so none to the own address of a record
\* that only a test-mode send had marked.
C26_TestSendCountsAsSent ==
  /\ pc \notin {"ready", "exited"} =>
       \A k \in 1..Len(attemptLog) :
         attemptLog[k].ok =>
           /\ StatusIn(rows[attemptLog[k].row]) = SENT
           /\ (AttemptsWritten /\ attemptLog[k].row <= Len(storeRows)) =>
                StatusIn(storeRows[attemptLog[k].row]) = SENT
  /\ (pc \notin {"ready", "exited"} /\ ~test_mode) =>
       \A i \in 1..Len(startRows) :
         StatusIn(startRows[i]) = SENT => AttemptsOf(i) = 0

\* a production run completed over a store in which a record was `sent`
\* though nothing was ever delivered to its own address: the mark came from a
\* test-mode send, and the production run made no attempt for the record
C26_Witness ==
  /\ pc = "done"
  /\ ~test_mode
  /\ \E i \in 1..Len(startRows) :
       /\ StatusIn(startRows[i]) = SENT
       /\ okSends[i] = 0
       /\ AttemptsOf(i) = 0
       /\ StatusIn(storeRows[i]) = SENT

====
